---------------------------- MODULE Spec2Model ----------------------------
(***************************************************************************)
(* Nurse scheduling with a constraint engine: index.py (sparse decision    *)
(* variables guarded by valid_n_d_s), nurse1.py (dense variables with      *)
(* certification, predefined, fatigue and evening-quota rules) and two.py  *)
(* (dense variables with even distribution).                               *)
(*                                                                         *)
(* One behaviour is one run of one program's main(): the configuration is  *)
(* chosen in Init, the model construction is one action per constraint     *)
(* group, solver.solve() hands the encoded model to the engine, and the    *)
(* engine calls the solution printer once per solution it finds.           *)
(*                                                                         *)
(* The engine itself is an external library.  It is modelled by what its   *)
(* interface promises: a solution is an assignment of 0/1 to every created *)
(* decision variable that satisfies every constraint added to the model,   *)
(* enumeration delivers solutions in an arbitrary order, and the stop flag *)
(* is looked at between two solutions.                                     *)
(***************************************************************************)
EXTENDS Integers, Sequences, FiniteSets, TLC

VARIABLES
    cfg,             \* the configuration: the data block at the top of main()
    pc,              \* position of main()
    shifts,          \* keys of the dict shifts: one decision variable each
    constraints,     \* the constraints added to the CpModel so far
    feasible,        \* engine: the solutions of the encoded model, listed
    next_index,      \* engine: place in feasible of the solution found next
    delivered,       \* engine: number of solutions handed to the callback
    cur,             \* the assignment read by self.value() in the last callback
    solution_count,  \* NursesPartialSolutionPrinter._solution_count
    stop_requested,  \* stop_search() has been called
    late,            \* callbacks delivered after stop_search() was called
    out_blocks,      \* number of "Solution k" blocks printed
    block,           \* the schedule lines of the last block printed
    stats_printed    \* the Statistics block has been printed

vars == <<cfg, pc, shifts, constraints, feasible, next_index, delivered, cur,
          solution_count, stop_requested, late, out_blocks, block,
          stats_printed>>

----------------------------------------------------------------------------
(* Bounds of the explored configurations.                                  *)

NumNurses == 2
NumDays == 2
MaxShifts == 2
MaxLimit == 2
MaxMinQuota == 1
MaxLate == 1

----------------------------------------------------------------------------
(* Generic helpers.                                                        *)

Range(f) == {f[i] : i \in DOMAIN f}

Last(s) == s[Len(s)]

\* Python's range(n): 0 .. n-1.
PyRange(n) == 0 .. (n - 1)

\* str.startswith: the name is a sequence of characters.
StartsWith(st, prefix) ==
    /\ Len(st) >= Len(prefix)
    /\ SubSeq(st, 1, Len(prefix)) = prefix

EVE == <<"E", "V", "E", "-">>

EmptyAssignment == [k \in {} |-> 0]

----------------------------------------------------------------------------
(* The engine's constraint interface.  Every constraint is a record        *)
(*   kind    : "exactly_one" | "at_most_one" | "eq" | "ge" | "le"          *)
(*   lits    : the decision variables summed (each with coefficient 1)     *)
(*   rhs     : the bound of a linear constraint                            *)
(*   enforce : the only_enforce_if literals ({} when unconditional)        *)

ExactlyOne(lits) ==
    [kind |-> "exactly_one", lits |-> lits, rhs |-> 1, enforce |-> {}]

AtMostOne(lits) ==
    [kind |-> "at_most_one", lits |-> lits, rhs |-> 1, enforce |-> {}]

Linear(lits, op, rhs) ==
    [kind |-> op, lits |-> lits, rhs |-> rhs, enforce |-> {}]

OnlyEnforceIf(c, lit) == [c EXCEPT !.enforce = {lit}]

\* sum(lits) under assignment a.
SumOf(a, lits) == Cardinality({k \in lits : a[k] = 1})

\* Whether assignment a satisfies constraint c.
Holds(a, c) ==
    \/ \E e \in c.enforce : a[e] = 0
    \/ CASE c.kind = "exactly_one" -> SumOf(a, c.lits) = 1
         [] c.kind = "at_most_one" -> SumOf(a, c.lits) <= 1
         [] c.kind = "eq" -> SumOf(a, c.lits) = c.rhs
         [] c.kind = "ge" -> SumOf(a, c.lits) >= c.rhs
         [] c.kind = "le" -> SumOf(a, c.lits) <= c.rhs

VarsOf(c) == c.lits \cup c.enforce

\* The days that have a decision variable; a key is <<nurse, day, shift>>.
DaysOf(keys) == {k[2] : k \in keys}

DayKeys(keys, d) == {k \in keys : k[2] = d}

\* Variables an unconditional equality fixes: sum(lits) == 0 fixes every
\* literal to 0, sum(lits) == len(lits) fixes every literal to 1.
ForcedZero(cs) ==
    UNION {c.lits : c \in {c \in cs : c.kind = "eq" /\ c.enforce = {} /\ c.rhs = 0}}

ForcedOne(cs) ==
    UNION {c.lits : c \in {c \in cs : /\ c.kind = "eq"
                                      /\ c.enforce = {}
                                      /\ c.rhs = Cardinality(c.lits)}}

\* The assignments of one day's variables that satisfy the constraints
\* mentioning that day's variables only.  Only the variables no equality
\* fixes are enumerated; every constraint is still checked.
DaySolutions(keys, cs, d) ==
    LET dk == DayKeys(keys, d)
        local == {c \in cs : VarsOf(c) \subseteq dk}
        zero == dk \cap ForcedZero(local)
        one == (dk \cap ForcedOne(local)) \ zero
        fixed == [k \in zero \cup one |-> IF k \in zero THEN 0 ELSE 1]
        free == dk \ (zero \cup one)
    IN {a \in {f @@ fixed : f \in [free -> {0, 1}]} :
           \A c \in local : Holds(a, c)}

RECURSIVE SetToSeq(_)
SetToSeq(S) ==
    IF S = {} THEN <<>>
    ELSE LET x == CHOOSE x \in S : TRUE IN <<x>> \o SetToSeq(S \ {x})

\* Every pairing of an assignment of A with one of B, listed.
Product(A, B) ==
    [i \in 1 .. (Len(A) * Len(B)) |->
        A[((i - 1) \div Len(B)) + 1] @@ B[((i - 1) % Len(B)) + 1]]

\* The assignments of the variables of the days D that satisfy, day by day,
\* the constraints of one day.
RECURSIVE CombineDays(_, _, _)
CombineDays(keys, cs, D) ==
    IF D = {} THEN <<EmptyAssignment>>
    ELSE LET d == CHOOSE x \in D : \A y \in D : x <= y
         IN Product(SetToSeq(DaySolutions(keys, cs, d)),
                    CombineDays(keys, cs, D \ {d}))

\* Every assignment of the created variables that satisfies every constraint,
\* each listed once: what the engine enumerates.
Solutions(keys, cs) ==
    LET D == DaysOf(keys)
        global == {c \in cs : \A d \in D : ~(VarsOf(c) \subseteq DayKeys(keys, d))}
        Satisfies(a) == \A c \in global : Holds(a, c)
    IN SelectSeq(CombineDays(keys, cs, D), Satisfies)

----------------------------------------------------------------------------
(* index.py                                                                *)

\* solution_limit = 5: "Display the first five solutions".
solution_limit == 5

\* The data of index.py's main().
IndexFixedConfig ==
    [prog |-> "index",
     ALL_NURSES |-> << <<"Alice", {"S1", "EVE-S1", "S2"}, {0, 1, 4}>>,
                       <<"Bobby", {"S1", "EVE-S1", "S2"}, {1, 2, 3}>>,
                       <<"Cindy", {"S1", "EVE-S1"}, {0, 1, 2, 3, 4}>> >>,
     ALL_SHIFT_TYPES |-> <<"S1", "EVE-S1", "S2">>,
     ALL_DAYS |-> <<0, 1, 2, 3, 4>>,
     shift_coverage_days |-> [s \in {"S1", "EVE-S1", "S2"} |->
                                 CASE s = "S1" -> {0, 1, 3, 4}
                                   [] s = "EVE-S1" -> {1, 2, 3}
                                   [] s = "S2" -> {0, 2, 4}],
     limits |-> {solution_limit}]

\* valid_n_d_s without the availability check.
valid_n_d_s_NoAvailability(nurse_certs, nurse_av, d, shift_name) ==
    /\ d \in cfg.shift_coverage_days[shift_name]
    /\ shift_name \in nurse_certs

valid_n_d_s(nurse_certs, nurse_av, d, shift_name) ==
    LET is_shift_needs_coverage == d \in cfg.shift_coverage_days[shift_name]
        is_emp_cert_for_shift == shift_name \in nurse_certs
        is_nurse_av == d \in nurse_av
    IN IF ~is_shift_needs_coverage THEN FALSE
       ELSE IF ~is_emp_cert_for_shift THEN FALSE
       ELSE IF ~is_nurse_av THEN FALSE
       ELSE TRUE


\* The (nurse, day, shift type) triples of the cartesian product, keyed as
\* the dict shifts is keyed: by nurse name, day and shift name.
IndexTriples ==
    {<<nu, d, s>> : nu \in Range(cfg.ALL_NURSES),
                    d \in Range(cfg.ALL_DAYS),
                    s \in Range(cfg.ALL_SHIFT_TYPES)}

\* Creates shift variables: the keys of shifts after the loop.
IndexShiftKeys ==
    {<<t[1][1], t[2], t[3]>> : t \in
        {t \in IndexTriples : valid_n_d_s(t[1][2], t[1][3], t[2], t[3])}}

\* Each shift is assigned to exactly one nurse in the schedule period.
IndexCoverageConstraints ==
    LET exactly_one_nurse(d, shift_name) ==
            {<<nu[1], d, shift_name>> : nu \in
                {nu \in Range(cfg.ALL_NURSES) :
                    valid_n_d_s(nu[2], nu[3], d, shift_name)}}
    IN {ExactlyOne(exactly_one_nurse(d, s)) :
           <<d, s>> \in {p \in Range(cfg.ALL_DAYS) \X Range(cfg.ALL_SHIFT_TYPES) :
                            Cardinality(exactly_one_nurse(p[1], p[2])) > 0}}

\* The at-most-one block never reached.
IndexAtMostOneConstraints_Skipped == {}

\* Each nurse made to work one of the valid shifts on every day.
IndexAtMostOneConstraints_ExactlyOne ==
    LET one_shift_per_day(nu, d) ==
            {<<nu[1], d, s>> : s \in
                {s \in Range(cfg.ALL_SHIFT_TYPES) : valid_n_d_s(nu[2], nu[3], d, s)}}
    IN {ExactlyOne(one_shift_per_day(nu, d)) :
           <<nu, d>> \in {p \in Range(cfg.ALL_NURSES) \X Range(cfg.ALL_DAYS) :
                             Cardinality(one_shift_per_day(p[1], p[2])) > 0}}

\* Each nurse works at most one shift per day.
IndexAtMostOneConstraints ==
    LET one_shift_per_day(nu, d) ==
            {<<nu[1], d, s>> : s \in
                {s \in Range(cfg.ALL_SHIFT_TYPES) : valid_n_d_s(nu[2], nu[3], d, s)}}
    IN {AtMostOne(one_shift_per_day(nu, d)) :
           <<nu, d>> \in {p \in Range(cfg.ALL_NURSES) \X Range(cfg.ALL_DAYS) :
                             Cardinality(one_shift_per_day(p[1], p[2])) > 0}}

\* The lines on_solution_callback prints for one nurse on one day.  After the
\* loop over the shift types, shift_name is still bound to the last of them.
IndexNurseLines(a, d, nu) ==
    LET Worked(s) == /\ valid_n_d_s(nu[2], nu[3], d, s)
                     /\ a[<<nu[1], d, s>>] = 1
        worked == SelectSeq(cfg.ALL_SHIFT_TYPES, Worked)
        shift_name == Last(cfg.ALL_SHIFT_TYPES)
    IN IF Len(worked) > 0
       THEN [i \in 1 .. Len(worked) |-> <<"works shift", worked[i]>>]
       ELSE IF valid_n_d_s(nu[2], nu[3], d, shift_name)
            THEN << <<"does not work">> >>
            ELSE << <<"not available">> >>

\* One schedule block: per day, per nurse (in list order), the lines printed.
IndexBlock(a) ==
    [d \in PyRange(Len(cfg.ALL_DAYS)) |->
        [i \in 1 .. Len(cfg.ALL_NURSES) |-> IndexNurseLines(a, d, cfg.ALL_NURSES[i])]]

----------------------------------------------------------------------------
(* nurse1.py                                                               *)

GEN == <<"G", "E", "N">>

ICU == <<"I", "C", "U">>

EVE_GEN == <<"E", "V", "E", "-", "G", "E", "N">>

\* The data of nurse1.py's main().
Nurse1FixedConfig ==
    [prog |-> "nurse1",
     num_nurses |-> 4,
     num_shifts |-> 3,
     num_days |-> 3,
     all_shift_types |-> <<GEN, ICU, EVE_GEN>>,
     coverage_required |->
         (<<0, 0>> :> 1 @@ <<0, 1>> :> 0 @@ <<0, 2>> :> 1 @@
          <<1, 0>> :> 0 @@ <<1, 1>> :> 1 @@ <<1, 2>> :> 0 @@
          <<2, 0>> :> 1 @@ <<2, 1>> :> 1 @@ <<2, 2>> :> 1),
     nurse_certifications |->
         (0 :> {GEN, ICU} @@ 1 :> {EVE_GEN} @@ 2 :> {GEN, EVE_GEN} @@ 3 :> {ICU}),
     predefined_shifts |-> << <<0, 1, 1>>, <<1, 2, 2>> >>,
     evening_shift_allocation_data |-> << <<1, 2>>, <<3, 4>>, <<3, 4>>, <<2, 3>> >>,
     limits |-> {solution_limit}]

\* all_shift_types[s] for the 0-based shift index s.
ShiftType(s) == cfg.all_shift_types[s + 1]

\* is_evening_for_shift_types[s]
is_evening(s) == StartsWith(ShiftType(s), EVE)

\* shifts[(n, d, s)] for every nurse, day and shift: the dense variable space
\* of nurse1.py and two.py.
DenseShiftKeys ==
    PyRange(cfg.num_nurses) \X PyRange(cfg.num_days) \X PyRange(cfg.num_shifts)

\* Enforce coverage requirements.
Nurse1CoverageConstraints ==
    {IF cfg.coverage_required[<<p[1], p[2]>>] = 1
         THEN ExactlyOne({<<n, p[1], p[2]>> : n \in PyRange(cfg.num_nurses)})
         ELSE Linear({<<n, p[1], p[2]>> : n \in PyRange(cfg.num_nurses)}, "eq", 0) :
       p \in PyRange(cfg.num_days) \X PyRange(cfg.num_shifts)}

\* Each nurse works at most one shift per day (nurse1.py and two.py).
DenseAtMostOneConstraints ==
    {AtMostOne({<<p[1], p[2], s>> : s \in PyRange(cfg.num_shifts)}) :
       p \in PyRange(cfg.num_nurses) \X PyRange(cfg.num_days)}

\* A shift type that is not in the nurse's allowed list is forbidden.
Nurse1CertificationConstraints ==
    {Linear({k}, "eq", 0) :
       k \in {k \in DenseShiftKeys :
                 ShiftType(k[3]) \notin cfg.nurse_certifications[k[1]]}}

\* Only the certification assertion.
PredefinedAccepted_CertOnly(t) ==
    ShiftType(t[3]) \in cfg.nurse_certifications[t[1]]

\* The two assertions on one predefined entry (n, d, s).
PredefinedAccepted(t) ==
    /\ ShiftType(t[3]) \in cfg.nurse_certifications[t[1]]
    /\ cfg.coverage_required[<<t[2], t[3]>>] # 0

\* Position of the first predefined entry an assertion rejects, 0 if none.
FirstRejected ==
    LET bad == {i \in 1 .. Len(cfg.predefined_shifts) :
                   ~PredefinedAccepted(cfg.predefined_shifts[i])}
    IN IF bad = {} THEN 0 ELSE CHOOSE i \in bad : \A j \in bad : i <= j

\* The entries asserted but never added to the model.
Nurse1PredefinedConstraints_NotAdded == {}

\* The constraints the predefined loop adds before it ends or raises.
Nurse1PredefinedConstraints ==
    LET upto == IF FirstRejected = 0 THEN Len(cfg.predefined_shifts)
                ELSE FirstRejected - 1
    IN {Linear({cfg.predefined_shifts[i]}, "eq", 1) : i \in 1 .. upto}

\* The day shifts of day d itself.
tomorrows_day_shifts_SameDay(n, d) ==
    {<<n, d, s_next>> : s_next \in
        {s_next \in PyRange(cfg.num_shifts) : ~StartsWith(ShiftType(s_next), EVE)}}

\* tomorrows_day_shifts of nurse n after day d.
tomorrows_day_shifts(n, d) ==
    {<<n, d + 1, s_next>> : s_next \in
        {s_next \in PyRange(cfg.num_shifts) : ~StartsWith(ShiftType(s_next), EVE)}}

\* No evening shift followed by a day shift.
Nurse1FatigueConstraints ==
    {OnlyEnforceIf(Linear(tomorrows_day_shifts(k[1], k[2]), "eq", 0), k) :
       k \in {k \in PyRange(cfg.num_nurses) \X PyRange(cfg.num_days - 1)
                       \X PyRange(cfg.num_shifts) :
                 /\ StartsWith(ShiftType(k[3]), EVE)
                 /\ tomorrows_day_shifts(k[1], k[2]) # {}}}

\* total_evening_shifts of nurse n.
total_evening_shifts(n) ==
    {k \in DenseShiftKeys : k[1] = n /\ is_evening(k[3])}

\* assigned_evening_shifts of nurse n: the list is created empty and nothing
\* is ever appended to it.
assigned_evening_shifts(n) == {}

\* The quota block without the minimum.
Nurse1QuotaConstraints_NoMinimum ==
    LET max_evening_shifts(n) == cfg.evening_shift_allocation_data[n + 1][2]
    IN {Linear(assigned_evening_shifts(n), "le", max_evening_shifts(n)) :
           n \in {n \in PyRange(cfg.num_nurses) : assigned_evening_shifts(n) # {}}}

\* Minimum and maximum number of evening shifts.
Nurse1QuotaConstraints ==
    LET min_evening_shifts(n) == cfg.evening_shift_allocation_data[n + 1][1]
        max_evening_shifts(n) == cfg.evening_shift_allocation_data[n + 1][2]
    IN {Linear(total_evening_shifts(n), "ge", min_evening_shifts(n)) :
           n \in PyRange(cfg.num_nurses)}
       \cup
       {Linear(assigned_evening_shifts(n), "le", max_evening_shifts(n)) :
           n \in {n \in PyRange(cfg.num_nurses) : assigned_evening_shifts(n) # {}}}

\* The lines nurse1.py's on_solution_callback prints for nurse n on day d.
Nurse1NurseLines(a, d, n) ==
    LET Worked(s) == a[<<n, d, s>>] = 1
        worked == SelectSeq([i \in 1 .. cfg.num_shifts |-> i - 1], Worked)
    IN IF Len(worked) > 0
       THEN [i \in 1 .. Len(worked) |->
                <<"works shift", worked[i], ShiftType(worked[i])>>]
       ELSE << <<"does not work">> >>

Nurse1Block(a) ==
    [d \in PyRange(cfg.num_days) |->
        [n \in PyRange(cfg.num_nurses) |-> Nurse1NurseLines(a, d, n)]]

----------------------------------------------------------------------------
(* two.py                                                                  *)

\* Each shift is assigned to exactly one nurse in the schedule period.
TwoCoverageConstraints ==
    {ExactlyOne({<<n, p[1], p[2]>> : n \in PyRange(cfg.num_nurses)}) :
       p \in PyRange(cfg.num_days) \X PyRange(cfg.num_shifts)}

\* Try to distribute the shifts evenly.
TwoDistributionConstraints ==
    LET min_shifts_per_nurse == (cfg.num_shifts * cfg.num_days) \div cfg.num_nurses
        max_shifts_per_nurse ==
            IF (cfg.num_shifts * cfg.num_days) % cfg.num_nurses = 0
            THEN min_shifts_per_nurse
            ELSE min_shifts_per_nurse + 1
        shifts_worked(n) == {k \in DenseShiftKeys : k[1] = n}
    IN UNION {{Linear(shifts_worked(n), "ge", min_shifts_per_nurse),
               Linear(shifts_worked(n), "le", max_shifts_per_nurse)} :
                 n \in PyRange(cfg.num_nurses)}

\* The lines two.py's on_solution_callback prints for nurse n on day d.
TwoNurseLines(a, d, n) ==
    LET Worked(s) == a[<<n, d, s>>] = 1
        worked == SelectSeq([i \in 1 .. cfg.num_shifts |-> i - 1], Worked)
    IN IF Len(worked) > 0
       THEN [i \in 1 .. Len(worked) |-> <<"works shift", worked[i]>>]
       ELSE << <<"does not work">> >>

TwoBlock(a) ==
    [d \in PyRange(cfg.num_days) |->
        [n \in PyRange(cfg.num_nurses) |-> TwoNurseLines(a, d, n)]]

----------------------------------------------------------------------------
(* Configurations.                                                         *)

AllDays == PyRange(NumDays)

DaySeq == [i \in 1 .. NumDays |-> i - 1]

NurseNames == <<"Alice", "Bobby", "Cindy", "Nurse4">>

IndexShiftNames == {"S1", "EVE-S1", "S2"}

IndexCertMenu == {{"S1", "EVE-S1", "S2"}, {"S1", "EVE-S1"}}

DaySetMenu == {AllDays, {0}}

IndexConfigs ==
    {[prog |-> "index",
      ALL_NURSES |-> [i \in 1 .. NumNurses |-> <<NurseNames[i], certs[i], av[i]>>],
      ALL_SHIFT_TYPES |-> <<"S1", "EVE-S1", "S2">>,
      ALL_DAYS |-> DaySeq,
      shift_coverage_days |-> cov,
      limits |-> 1 .. MaxLimit] :
        certs \in [1 .. NumNurses -> IndexCertMenu],
        av \in [1 .. NumNurses -> {AllDays, AllDays \ {0}}],
        cov \in [IndexShiftNames -> DaySetMenu]}

Nurse1ShiftTypes == <<GEN, ICU, EVE_GEN>>

Nurse1CertMenu == {{GEN, ICU}, {EVE_GEN}, {GEN, EVE_GEN}}

\* Coverage of one day, per shift index: rows of nurse1.py's table.
Nurse1RowMenu == {<<1, 0, 1>>, <<0, 1, 0>>}

\* Every nurse has quota (0, 1), or one nurse has (m, m + 1) instead.
Nurse1QuotaMenu ==
    {[i \in 1 .. NumNurses |-> <<0, 1>>]} \cup
    {[i \in 1 .. NumNurses |-> IF i = j THEN <<m, m + 1>> ELSE <<0, 1>>] :
        j \in 1 .. NumNurses, m \in 1 .. MaxMinQuota}

\* No predefined shift, one for nurse 0, or (0, 0, 0) and one for nurse 1.
Nurse1PredefinedMenu ==
    {<<>>} \cup
    {<<t>> : t \in {0} \X PyRange(NumDays) \X PyRange(Len(Nurse1ShiftTypes))} \cup
    {<< <<0, 0, 0>>, t >> :
        t \in {1} \X PyRange(NumDays) \X PyRange(Len(Nurse1ShiftTypes))}

Nurse1Config(certs, rows, quota, predefined) ==
    [prog |-> "nurse1",
     num_nurses |-> NumNurses,
     num_shifts |-> Len(Nurse1ShiftTypes),
     num_days |-> NumDays,
     all_shift_types |-> Nurse1ShiftTypes,
     coverage_required |->
         [p \in PyRange(NumDays) \X PyRange(Len(Nurse1ShiftTypes)) |->
             rows[p[1]][p[2] + 1]],
     nurse_certifications |-> certs,
     predefined_shifts |-> predefined,
     evening_shift_allocation_data |-> quota,
     limits |-> 1 .. MaxLimit]

Nurse1Configs ==
    {Nurse1Config(certs, rows, quota, <<>>) :
        certs \in [PyRange(NumNurses) -> Nurse1CertMenu],
        rows \in [PyRange(NumDays) -> Nurse1RowMenu],
        quota \in Nurse1QuotaMenu}
    \cup
    {Nurse1Config(certs, rows, [i \in 1 .. NumNurses |-> <<0, 1>>], predefined) :
        certs \in [PyRange(NumNurses) -> Nurse1CertMenu],
        rows \in [PyRange(NumDays) -> Nurse1RowMenu],
        predefined \in Nurse1PredefinedMenu}

TwoConfigs ==
    {[prog |-> "two", num_nurses |-> n, num_shifts |-> s, num_days |-> d,
      limits |-> 1 .. MaxLimit] :
        n \in 1 .. NumNurses, s \in 1 .. MaxShifts, d \in 1 .. NumDays}

----------------------------------------------------------------------------
(* The run of main().                                                      *)

Init ==
    /\ cfg \in IndexConfigs \cup {IndexFixedConfig}
               \cup Nurse1Configs \cup {Nurse1FixedConfig} \cup TwoConfigs
    /\ pc = "create_vars"
    /\ shifts = {}
    /\ constraints = {}
    /\ feasible = <<>>
    /\ next_index = 0
    /\ delivered = 0
    /\ cur = EmptyAssignment
    /\ solution_count = 0
    /\ stop_requested = FALSE
    /\ late = 0
    /\ out_blocks = 0
    /\ block = <<>>
    /\ stats_printed = FALSE

BuildStep(from, to, keys, cs) ==
    /\ pc = from
    /\ pc' = to
    /\ shifts' = keys
    /\ constraints' = cs
    /\ UNCHANGED <<cfg, feasible, next_index, delivered, cur, solution_count,
                   stop_requested, late, out_blocks, block, stats_printed>>

IndexCreateShiftVars ==
    /\ cfg.prog = "index"
    /\ BuildStep("create_vars", "coverage", IndexShiftKeys, constraints)

IndexAddCoverage ==
    /\ cfg.prog = "index"
    /\ BuildStep("coverage", "at_most_one", shifts,
                 constraints \cup IndexCoverageConstraints)

IndexAddAtMostOne ==
    /\ cfg.prog = "index"
    /\ BuildStep("at_most_one", "solve", shifts,
                 constraints \cup IndexAtMostOneConstraints)

Nurse1CreateShiftVars ==
    /\ cfg.prog = "nurse1"
    /\ BuildStep("create_vars", "coverage", DenseShiftKeys, constraints)

Nurse1AddCoverage ==
    /\ cfg.prog = "nurse1"
    /\ BuildStep("coverage", "at_most_one", shifts,
                 constraints \cup Nurse1CoverageConstraints)

Nurse1AddAtMostOne ==
    /\ cfg.prog = "nurse1"
    /\ BuildStep("at_most_one", "certification", shifts,
                 constraints \cup DenseAtMostOneConstraints)

Nurse1AddCertification ==
    /\ cfg.prog = "nurse1"
    /\ BuildStep("certification", "predefined", shifts,
                 constraints \cup Nurse1CertificationConstraints)

\* Set predefined shifts: a failed assertion ends the run.
Nurse1SetPredefined ==
    /\ cfg.prog = "nurse1"
    /\ BuildStep("predefined",
                 IF FirstRejected = 0 THEN "fatigue" ELSE "aborted",
                 shifts, constraints \cup Nurse1PredefinedConstraints)

Nurse1AddFatigue ==
    /\ cfg.prog = "nurse1"
    /\ BuildStep("fatigue", "quota", shifts,
                 constraints \cup Nurse1FatigueConstraints)

Nurse1AddQuota ==
    /\ cfg.prog = "nurse1"
    /\ BuildStep("quota", "solve", shifts,
                 constraints \cup Nurse1QuotaConstraints)

TwoCreateShiftVars ==
    /\ cfg.prog = "two"
    /\ BuildStep("create_vars", "coverage", DenseShiftKeys, constraints)

TwoAddCoverage ==
    /\ cfg.prog = "two"
    /\ BuildStep("coverage", "at_most_one", shifts,
                 constraints \cup TwoCoverageConstraints)

TwoAddAtMostOne ==
    /\ cfg.prog = "two"
    /\ BuildStep("at_most_one", "distribution", shifts,
                 constraints \cup DenseAtMostOneConstraints)

TwoAddDistribution ==
    /\ cfg.prog = "two"
    /\ BuildStep("distribution", "solve", shifts,
                 constraints \cup TwoDistributionConstraints)

\* solution_printer = NursesPartialSolutionPrinter(..., solution_limit);
\* solver.solve(model, solution_printer): the engine takes the encoded model.
Solve ==
    /\ pc = "solve"
    /\ LET sols == Solutions(shifts, constraints)
       IN /\ feasible' = sols
          /\ \E lim \in cfg.limits : cfg' = [cfg EXCEPT !.limits = {lim}]
    /\ pc' = "searching"
    /\ solution_count' = 0
    /\ UNCHANGED <<shifts, constraints, next_index, delivered, cur,
                   stop_requested, late, out_blocks, block, stats_printed>>

\* NursesPartialSolutionPrinter._solution_limit
Limit == CHOOSE lim \in cfg.limits : TRUE

\* The callback stopping only once the count exceeds the limit.
OnSolution_StrictCompare(a, blk) ==
    /\ solution_count' = solution_count + 1
    /\ out_blocks' = out_blocks + 1
    /\ cur' = a
    /\ block' = blk
    /\ stop_requested' = IF solution_count + 1 > Limit THEN TRUE
                         ELSE stop_requested

\* The body of on_solution_callback, given the block it prints.
OnSolution(a, blk) ==
    /\ solution_count' = solution_count + 1
    /\ out_blocks' = out_blocks + 1
    /\ cur' = a
    /\ block' = blk
    /\ stop_requested' = IF solution_count + 1 >= Limit THEN TRUE
                         ELSE stop_requested

\* The engine finds its next solution, at place i of feasible.  The search
\* order is the engine's: the first solution found is any of them, and the
\* following ones come in turn, so that no solution is found twice.
EngineFinds(i) ==
    /\ pc = "searching"
    /\ delivered < Len(feasible)
    /\ i \in 1 .. Len(feasible)
    /\ delivered > 0 => i = next_index
    /\ next_index' = (i % Len(feasible)) + 1
    /\ delivered' = delivered + 1
    /\ UNCHANGED <<cfg, pc, shifts, constraints, feasible, stats_printed>>

\* The callback of a solution found while the stop flag is not set.
Delivery(i) ==
    /\ ~stop_requested
    /\ EngineFinds(i)
    /\ UNCHANGED late

IndexOnSolutionCallback ==
    /\ cfg.prog = "index"
    /\ \E i \in 1 .. Len(feasible) :
          Delivery(i) /\ OnSolution(feasible[i], IndexBlock(feasible[i]))

Nurse1OnSolutionCallback ==
    /\ cfg.prog = "nurse1"
    /\ \E i \in 1 .. Len(feasible) :
          Delivery(i) /\ OnSolution(feasible[i], Nurse1Block(feasible[i]))

TwoOnSolutionCallback ==
    /\ cfg.prog = "two"
    /\ \E i \in 1 .. Len(feasible) :
          Delivery(i) /\ OnSolution(feasible[i], TwoBlock(feasible[i]))

\* solver.solve returns, the search being stopped or exhausted, and main()
\* prints the Statistics block.
PrintStatistics ==
    /\ pc = "searching"
    /\ stop_requested \/ delivered = Len(feasible)
    /\ stats_printed' = TRUE
    /\ pc' = "done"
    /\ UNCHANGED <<cfg, shifts, constraints, feasible, next_index, delivered,
                   cur, solution_count, stop_requested, late, out_blocks, block>>

Next ==
    \/ IndexCreateShiftVars
    \/ IndexAddCoverage
    \/ IndexAddAtMostOne
    \/ Nurse1CreateShiftVars
    \/ Nurse1AddCoverage
    \/ Nurse1AddAtMostOne
    \/ Nurse1AddCertification
    \/ Nurse1SetPredefined
    \/ Nurse1AddFatigue
    \/ Nurse1AddQuota
    \/ TwoCreateShiftVars
    \/ TwoAddCoverage
    \/ TwoAddAtMostOne
    \/ TwoAddDistribution
    \/ Solve
    \/ IndexOnSolutionCallback
    \/ Nurse1OnSolutionCallback
    \/ TwoOnSolutionCallback
    \/ PrintStatistics

Spec == Init /\ [][Next]_vars

----------------------------------------------------------------------------
(* Observer overrun: the engine had found a further solution before it     *)
(* looked at the stop flag, and calls the printer once more.               *)

LateDelivery(i) ==
    /\ stop_requested
    /\ late < MaxLate
    /\ EngineFinds(i)
    /\ late' = late + 1

IndexLateCallback ==
    /\ cfg.prog = "index"
    /\ \E i \in 1 .. Len(feasible) :
          LateDelivery(i) /\ OnSolution(feasible[i], IndexBlock(feasible[i]))

Nurse1LateCallback ==
    /\ cfg.prog = "nurse1"
    /\ \E i \in 1 .. Len(feasible) :
          LateDelivery(i) /\ OnSolution(feasible[i], Nurse1Block(feasible[i]))

TwoLateCallback ==
    /\ cfg.prog = "two"
    /\ \E i \in 1 .. Len(feasible) :
          LateDelivery(i) /\ OnSolution(feasible[i], TwoBlock(feasible[i]))

NextLate ==
    \/ Next
    \/ IndexLateCallback
    \/ Nurse1LateCallback
    \/ TwoLateCallback

SpecLate == Init /\ [][NextLate]_vars


----------------------------------------------------------------------------
(* Properties.                                                             *)

\* A callback has happened: cur is a solution the engine delivered.
SolutionDelivered == solution_count > 0

\* Decision variable k exists and is true in the delivered solution.
IsTrue(k) == k \in DOMAIN cur /\ cur[k] = 1

IndexNurses == Range(cfg.ALL_NURSES)

IndexDays == Range(cfg.ALL_DAYS)

IndexTypes == Range(cfg.ALL_SHIFT_TYPES)

\* The three conditions of a valid triple, stated on the configuration.
TripleIsValid(nu, d, s) ==
    /\ d \in cfg.shift_coverage_days[s]
    /\ s \in nu[2]
    /\ d \in nu[3]

(* C1: in index.py, once the variables are created, the dict shifts has a  *)
(* decision variable for a triple (nurse, day, shift type) if and only if  *)
(* the day is a coverage day of the shift type, the shift type is in the   *)
(* nurse's certifications and the day is in the nurse's availability.      *)
C1_VariableIffValid ==
    (cfg.prog = "index" /\ pc # "create_vars") =>
        \A nu \in IndexNurses, d \in IndexDays, s \in IndexTypes :
            (<<nu[1], d, s>> \in shifts) <=> TripleIsValid(nu, d, s)

\* Variables were created, and triples were left out for each of the three
\* reasons alone.
C1_Witness ==
    /\ cfg.prog = "index"
    /\ pc = "coverage"
    /\ shifts # {}
    /\ \E nu \in IndexNurses, d \in IndexDays, s \in IndexTypes :
          d \notin cfg.shift_coverage_days[s] /\ s \in nu[2] /\ d \in nu[3]
    /\ \E nu \in IndexNurses, d \in IndexDays, s \in IndexTypes :
          d \in cfg.shift_coverage_days[s] /\ s \notin nu[2] /\ d \in nu[3]
    /\ \E nu \in IndexNurses, d \in IndexDays, s \in IndexTypes :
          d \in cfg.shift_coverage_days[s] /\ s \in nu[2] /\ d \notin nu[3]

\* Number of nurses whose variable for (d, s) is true, in index.py.
IndexNursesOn(d, s) ==
    Cardinality({nu \in IndexNurses : IsTrue(<<nu[1], d, s>>)})

\* Number of nurses whose variable for (d, s) is true, in nurse1.py.
DenseNursesOn(d, s) ==
    Cardinality({n \in PyRange(cfg.num_nurses) : IsTrue(<<n, d, s>>)})

(* C2: in every delivered solution, each (day, shift type) that requires   *)
(* coverage has exactly one true variable among all nurses and each        *)
(* (day, shift type) that does not has none; for index.py and nurse1.py.   *)
C2_CoverageExactlyOne ==
    SolutionDelivered =>
        /\ cfg.prog = "index" =>
              \A d \in IndexDays, s \in IndexTypes :
                  IndexNursesOn(d, s) =
                      (IF d \in cfg.shift_coverage_days[s] THEN 1 ELSE 0)
        /\ cfg.prog = "nurse1" =>
              \A d \in PyRange(cfg.num_days), s \in PyRange(cfg.num_shifts) :
                  DenseNursesOn(d, s) =
                      (IF cfg.coverage_required[<<d, s>>] = 1 THEN 1 ELSE 0)

\* Number of true evening variables of nurse n over all days, in nurse1.py.
EveningCount(n) ==
    Cardinality({k \in DOMAIN cur :
                    k[1] = n /\ StartsWith(ShiftType(k[3]), EVE) /\ cur[k] = 1})

(* C3: in every solution of nurse1.py, each nurse's number of true evening *)
(* variables is at least the minimum and at most the maximum of            *)
(* evening_shift_allocation_data[n].                                       *)
C3_EveningWithinQuota ==
    (cfg.prog = "nurse1" /\ SolutionDelivered) =>
        \A n \in PyRange(cfg.num_nurses) :
            /\ EveningCount(n) >= cfg.evening_shift_allocation_data[n + 1][1]
            /\ EveningCount(n) <= cfg.evening_shift_allocation_data[n + 1][2]

\* Nurse n has a true evening variable on day d.
WorksEvening(n, d) ==
    \E s \in PyRange(cfg.num_shifts) :
        StartsWith(ShiftType(s), EVE) /\ IsTrue(<<n, d, s>>)

\* Nurse n has a true non-evening variable on day d.
WorksDayShift(n, d) ==
    \E s \in PyRange(cfg.num_shifts) :
        ~StartsWith(ShiftType(s), EVE) /\ IsTrue(<<n, d, s>>)

(* C4: in every solution of nurse1.py, for every nurse and every day but   *)
(* the last, a true evening variable on day d means every non-evening      *)
(* variable of the nurse on day d + 1 is false.  The rule is an            *)
(* implication: C4_Witness is a solution in which a nurse without an       *)
(* evening shift on day d works a day shift on day d + 1.                  *)
C4_NoEveningThenDay ==
    (cfg.prog = "nurse1" /\ SolutionDelivered) =>
        \A n \in PyRange(cfg.num_nurses), d \in PyRange(cfg.num_days - 1) :
            WorksEvening(n, d) => ~WorksDayShift(n, d + 1)

\* One solution in which the rule binds for one nurse (evening on d, and
\* then no day shift on d + 1) and leaves another nurse free (no evening on
\* d, a day shift on d + 1).
C4_Witness ==
    /\ cfg.prog = "nurse1"
    /\ SolutionDelivered
    /\ \E n \in PyRange(cfg.num_nurses), d \in PyRange(cfg.num_days - 1) :
          WorksEvening(n, d) /\ WorksEvening(n, d + 1)
    /\ \E n \in PyRange(cfg.num_nurses), d \in PyRange(cfg.num_days - 1) :
          ~WorksEvening(n, d) /\ WorksDayShift(n, d + 1)

\* The nurses and days of the running program, as the keys name them.
KeyNurses == {k[1] : k \in DOMAIN cur}

KeyDays == {k[2] : k \in DOMAIN cur}

\* Number of true variables of nurse n on day d.
ShiftsWorked(n, d) ==
    Cardinality({k \in DOMAIN cur : k[1] = n /\ k[2] = d /\ cur[k] = 1})

(* C5: in every solution of index.py, nurse1.py and two.py, every nurse    *)
(* has at most one true variable on every day.                             *)
C5_AtMostOneShiftPerDay ==
    SolutionDelivered =>
        \A n \in KeyNurses, d \in KeyDays : ShiftsWorked(n, d) <= 1

\* A solution of index.py in which a nurse with variables for two shift
\* types on one day works one of them.
C5_Witness ==
    /\ cfg.prog = "index"
    /\ SolutionDelivered
    /\ \E n \in KeyNurses, d \in KeyDays :
          /\ Cardinality({k \in DOMAIN cur : k[1] = n /\ k[2] = d}) >= 2
          /\ ShiftsWorked(n, d) = 1

(* C6: in every solution of nurse1.py, the variable of every triple of     *)
(* predefined_shifts is true.                                              *)
C6_PredefinedTrue ==
    (cfg.prog = "nurse1" /\ SolutionDelivered) =>
        \A i \in 1 .. Len(cfg.predefined_shifts) :
            cur[cfg.predefined_shifts[i]] = 1

\* A solution of a configuration with two predefined shifts.
C6_Witness ==
    /\ cfg.prog = "nurse1"
    /\ SolutionDelivered
    /\ Len(cfg.predefined_shifts) = 2

(* C7: with cap N >= 1 and at least N solutions, the enumeration stops     *)
(* after exactly N solutions: at the end of the run N blocks are printed   *)
(* and solutionCount() is N; and at no time were more than N reported.     *)
C7_StopsAfterLimit ==
    (pc \in {"searching", "done"}) =>
        /\ solution_count <= Limit
        /\ out_blocks = solution_count
        /\ (pc = "done" /\ Len(feasible) >= Limit) =>
              (solution_count = Limit /\ out_blocks = Limit)

\* A finished run that stopped at the cap with solutions left unreported.
C7_Witness ==
    /\ pc = "done"
    /\ Limit >= 2
    /\ Len(feasible) > Limit
    /\ solution_count = Limit

(* C8: once the printer has requested stop, a later on_solution_callback   *)
(* is ignored: the counter, the number of blocks printed and the last      *)
(* block stay as they are.                                                 *)
C8_LateCallbackIgnored ==
    [][stop_requested =>
          /\ solution_count' = solution_count
          /\ out_blocks' = out_blocks
          /\ block' = block]_vars

\* predefined_shifts of nurse1.py has an entry whose shift type is not in
\* the nurse's certifications, or whose (day, shift) needs no coverage.
HasDefectiveEntry ==
    \E i \in 1 .. Len(cfg.predefined_shifts) :
        LET t == cfg.predefined_shifts[i]
        IN \/ cfg.all_shift_types[t[3] + 1] \notin cfg.nurse_certifications[t[1]]
           \/ cfg.coverage_required[<<t[2], t[3]>>] = 0

(* C9: in nurse1.py, a predefined entry that is not certified or not       *)
(* coverage-required aborts the run during model construction: the run     *)
(* never gets past the predefined loop, solve is never called, and neither *)
(* a schedule block nor the statistics are printed.                        *)
C9_DefectiveEntryAborts ==
    (cfg.prog = "nurse1" /\ HasDefectiveEntry) =>
        /\ pc \in {"create_vars", "coverage", "at_most_one", "certification",
                   "predefined", "aborted"}
        /\ feasible = <<>>
        /\ delivered = 0
        /\ solution_count = 0
        /\ out_blocks = 0
        /\ ~stats_printed

\* An aborted run whose first entry is accepted and whose second entry is
\* certified but needs no coverage.
C9_Witness ==
    /\ cfg.prog = "nurse1"
    /\ pc = "aborted"
    /\ Len(cfg.predefined_shifts) = 2
    /\ LET t == cfg.predefined_shifts[2]
       IN /\ cfg.all_shift_types[t[3] + 1] \in cfg.nurse_certifications[t[1]]
          /\ cfg.coverage_required[<<t[2], t[3]>>] = 0

\* The lines the claim expects for nurse nu on day d of the delivered
\* solution.
ExpectedIndexLines(d, nu) ==
    LET Worked(s) == IsTrue(<<nu[1], d, s>>)
        worked == SelectSeq(cfg.ALL_SHIFT_TYPES, Worked)
    IN IF Len(worked) > 0
       THEN [i \in 1 .. Len(worked) |-> <<"works shift", worked[i]>>]
       ELSE IF \E s \in IndexTypes : TripleIsValid(nu, d, s)
            THEN << <<"does not work">> >>
            ELSE << <<"not available">> >>

(* C10: in index.py's block of a solution, a nurse with a true variable on *)
(* a day gets a "works shift" line for it and no other line; a nurse       *)
(* without one gets "does not work" if some shift type is valid for the    *)
(* nurse on that day, and "not available" if none is.                      *)
C10_ReportLines ==
    (cfg.prog = "index" /\ SolutionDelivered) =>
        \A d \in PyRange(Len(cfg.ALL_DAYS)), i \in 1 .. Len(cfg.ALL_NURSES) :
            block[d][i] = ExpectedIndexLines(d, cfg.ALL_NURSES[i])

\* The run is index.py with the data of its main().
IndexFixedRun == cfg.prog = "index" /\ cfg = IndexFixedConfig

(* C11: with index.py's own data the encoded model is satisfiable: the     *)
(* search has at least one assignment of the created variables that        *)
(* satisfies every coverage and every at-most-one constraint, and a        *)
(* finished run has invoked the callback at least once.                    *)
C11_FixedIndexSatisfiable ==
    (IndexFixedRun /\ pc \in {"searching", "done"}) =>
        /\ Len(feasible) >= 1
        /\ \A i \in 1 .. Len(feasible) :
              /\ DOMAIN feasible[i] = shifts
              /\ \A c \in IndexCoverageConstraints \cup IndexAtMostOneConstraints :
                    Holds(feasible[i], c)
        /\ pc = "done" => solution_count >= 1

\* The finished run of index.py's own data, with its five solutions printed.
C11_Witness ==
    /\ IndexFixedRun
    /\ pc = "done"
    /\ stats_printed
    /\ solution_count = solution_limit
    /\ IndexCoverageConstraints # {}
    /\ IndexAtMostOneConstraints # {}

\* The run is nurse1.py with the data of its main().
Nurse1FixedRun == cfg.prog = "nurse1" /\ cfg = Nurse1FixedConfig

\* Nurse n is not certified for the evening shift s, so the certification
\* block forces the variables of (n, s) to 0, and yet owes at least one
\* evening shift.
OwesUncertifiedEvening(n) ==
    /\ cfg.evening_shift_allocation_data[n + 1][1] >= 1
    /\ \A s \in PyRange(cfg.num_shifts) :
          is_evening(s) =>
              /\ ShiftType(s) \notin cfg.nurse_certifications[n]
              /\ \A d \in PyRange(cfg.num_days) :
                    Linear({<<n, d, s>>}, "eq", 0) \in Nurse1CertificationConstraints

(* C12: with nurse1.py's own data the encoded constraints have no          *)
(* satisfying assignment: construction completes, the search finds         *)
(* nothing, on_solution_callback is never invoked, no block is printed,    *)
(* and the statistics report 0 solutions found.                            *)
C12_FixedNurse1Infeasible ==
    Nurse1FixedRun =>
        /\ pc # "aborted"
        /\ feasible = <<>>
        /\ delivered = 0
        /\ solution_count = 0
        /\ out_blocks = 0
        /\ ~stop_requested
        /\ pc = "done" => stats_printed

\* The finished run of nurse1.py's own data: every block of constraints was
\* added, a nurse without the evening certification owes an evening shift,
\* and the statistics were printed with no solution found.
C12_Witness ==
    /\ Nurse1FixedRun
    /\ pc = "done"
    /\ stats_printed
    /\ solution_count = 0
    /\ Nurse1QuotaConstraints \subseteq constraints
    /\ Nurse1CertificationConstraints \subseteq constraints
    /\ \E n \in PyRange(cfg.num_nurses) : OwesUncertifiedEvening(n)

=============================================================================
